---- MODULE Spec2Model ----
(***************************************************************************)
(* A model of rr's src/launch_debugger.cc: the debugger bootstrap          *)
(* (launch_debugger), the advisory launch command                          *)
(* (debugger_launch_command) and the emergency attach point                *)
(* (emergency_debug).                                                      *)
(*                                                                         *)
(* A C/C++ string is a sequence of one-character strings, so that          *)
(* strncmp, string concatenation and decimal formatting are computed       *)
(* character by character, as the code computes them.                      *)
(***************************************************************************)
EXTENDS Integers, Sequences, FiniteSets, TLC

\* ------------------------------------------------------------------ bounds
\* Longest passthrough options list of the argument-building specification.
MaxOpts == 4
\* Most top-level calls one process makes.
MaxCalls == 2
\* Most consecutive signal interruptions of one blocking read.
MaxEintr == 2
\* Most ports open_socket finds taken before it finds a free one.
MaxProbe == 1

\* ------------------------------------------------------ program constants
\* sizeof(DebuggerParams): PATH_MAX + 16 + sizeof(short).
SizeofParams == 4114
\* errno values: EINTR, and one other error (EIO).
EINTR == 4
EIO == 5
\* SIGURG on Linux.
SIGURG == 23

\* ---------------------------------------------------------------- strings
NUL == "\\0"

S_ex == <<"-", "e", "x">>
S_continue == <<"c", "o", "n", "t", "i", "n", "u", "e">>
S_c == <<"c">>
S_empty == <<>>
S_continue3 == <<"c", "o", "n", "t", "i", "n", "u", "e", " ", "3">>
S_l == <<"-", "l">>
S_10000 == <<"1", "0", "0", "0", "0">>
S_set_sysroot == <<"s", "e", "t", " ", "s", "y", "s", "r", "o", "o", "t", " ", "/">>
S_x == <<"-", "x">>
S_target == <<"t", "a", "r", "g", "e", "t", " ", "e", "x", "t", "e", "n", "d", "e", "d",
              "-", "r", "e", "m", "o", "t", "e", " ">>
S_colon == <<":">>
S_gdb == <<"g", "d", "b">>
S_proc == <<"/", "p", "r", "o", "c", "/">>
S_fd == <<"/", "f", "d", "/">>
S_quote == <<"'">>
S_quote_space == <<"'", " ">>

\* operator<<(ostream&, unsigned): the decimal digits of n, no sign, no padding.
Digit(d) == <<"0", "1", "2", "3", "4", "5", "6", "7", "8", "9">>[d + 1]

RECURSIVE Dec(_)
Dec(n) == IF n < 10 THEN <<Digit(n)>> ELSE Dec(n \div 10) \o <<Digit(n % 10)>>

\* The i-th character of s.c_str(): the characters of s, then the terminator.
CharAt(s, i) == IF i <= Len(s) THEN s[i] ELSE NUL

\* strncmp(a, b, n): 0 when the first n characters agree or both strings end
\* before they differ, nonzero (here 1) otherwise.
RECURSIVE strncmp_from(_, _, _, _)
strncmp_from(a, b, i, n) ==
    IF i > n THEN 0
    ELSE IF CharAt(a, i) # CharAt(b, i) THEN 1
    ELSE IF CharAt(a, i) = NUL THEN 0
    ELSE strncmp_from(a, b, i + 1, n)

strncmp(a, b, n) == strncmp_from(a, b, 1, n)

\* A conversion to unsigned short that takes a negative value to 0.
ToUShortSaturating(n) == IF n < 0 THEN 0 ELSE n % 65536

\* A value of type short, and its conversion to unsigned short.
ToShort(n) == IF n % 65536 >= 32768 THEN (n % 65536) - 65536 ELSE n % 65536
ToUShort(n) == n % 65536

\* ------------------------------------------------- the argument sequences
\* The default options with the sysroot reset pushed whatever serve_files is.
push_default_gdb_options_always(vec, serve_files) ==
    vec \o <<S_l, S_10000>> \o <<S_ex, S_set_sysroot>>

\* Lines 129-157.
push_default_gdb_options(vec, serve_files) ==
    IF ~serve_files
    THEN vec \o <<S_l, S_10000>> \o <<S_ex, S_set_sysroot>>
    ELSE vec \o <<S_l, S_10000>>

\* The directive string "target extended-remote HOST:PORT".
TargetDirective(host, port) == S_target \o host \o S_colon \o Dec(port)

push_gdb_target_remote_cmd(vec, host, port) ==
    vec \o <<S_ex, TargetDirective(host, port)>>

\* to_shell_string with the quotes left out: the strings divided by blanks.
RECURSIVE to_shell_string_unquoted_from(_, _)
to_shell_string_unquoted_from(args, i) ==
    IF i > Len(args) THEN <<>>
    ELSE args[i] \o <<" ">> \o to_shell_string_unquoted_from(args, i + 1)

RECURSIVE to_shell_string_from(_, _)
to_shell_string_from(args, i) ==
    IF i > Len(args) THEN <<>>
    ELSE S_quote \o args[i] \o S_quote_space \o to_shell_string_from(args, i + 1)

to_shell_string(args) == to_shell_string_from(args, 1)

needs_target(option) == strncmp(option, S_continue, Len(option)) = 0

\* The loop without its did_set_remote test: a directive before every match.
RECURSIVE options_loop_every(_, _, _, _, _, _)
options_loop_every(args, did_set_remote, i, options, host, port) ==
    IF i > Len(options) THEN [args |-> args, did_set_remote |-> did_set_remote]
    ELSE IF /\ options[i] = S_ex
            /\ i + 1 <= Len(options)
            /\ needs_target(options[i + 1])
         THEN options_loop_every(
                  Append(push_gdb_target_remote_cmd(args, host, port), options[i]),
                  TRUE, i + 1, options, host, port)
         ELSE options_loop_every(Append(args, options[i]), did_set_remote, i + 1,
                                 options, host, port)

\* The loop with line 251 in an else branch: the option at which the
\* directive is inserted is not copied.
RECURSIVE options_loop_dropping(_, _, _, _, _, _)
options_loop_dropping(args, did_set_remote, i, options, host, port) ==
    IF i > Len(options) THEN [args |-> args, did_set_remote |-> did_set_remote]
    ELSE IF /\ ~did_set_remote
            /\ options[i] = S_ex
            /\ i + 1 <= Len(options)
            /\ needs_target(options[i + 1])
         THEN options_loop_dropping(push_gdb_target_remote_cmd(args, host, port),
                                    TRUE, i + 1, options, host, port)
         ELSE options_loop_dropping(Append(args, options[i]), did_set_remote, i + 1,
                                    options, host, port)

\* The loop over the passthrough options: the state (args, did_set_remote)
\* after the iterations i .. options.size().
RECURSIVE options_loop(_, _, _, _, _, _)
options_loop(args, did_set_remote, i, options, host, port) ==
    IF i > Len(options) THEN [args |-> args, did_set_remote |-> did_set_remote]
    ELSE IF /\ ~did_set_remote
            /\ options[i] = S_ex
            /\ i + 1 <= Len(options)
            /\ needs_target(options[i + 1])
         THEN options_loop(Append(push_gdb_target_remote_cmd(args, host, port), options[i]),
                           TRUE, i + 1, options, host, port)
         ELSE options_loop(Append(args, options[i]), did_set_remote, i + 1,
                           options, host, port)

\* launch_debugger's argument list without the directive appended after the
\* loop when no option asked for it.
launch_debugger_args_no_append(debugger_file_path, options, serve_files, command_file, p) ==
    LET args0 == push_default_gdb_options(<<debugger_file_path>>, serve_files)
                     \o <<S_x, command_file>>
        host == p.host
        port == ToUShort(p.port)
        loop == options_loop(args0, FALSE, 1, options, host, port)
    IN  Append(loop.args, p.exe_image)

\* The argument list launch_debugger builds from the record p it has read;
\* string(params.host) and params.exe_image are the record's strings up to
\* their terminators, params.port is converted from short to unsigned short.
launch_debugger_args(debugger_file_path, options, serve_files, command_file, p) ==
    LET args0 == push_default_gdb_options(<<debugger_file_path>>, serve_files)
                     \o <<S_x, command_file>>
        host == p.host
        port == ToUShort(p.port)
        loop == options_loop(args0, FALSE, 1, options, host, port)
        args1 == IF ~loop.did_set_remote
                 THEN push_gdb_target_remote_cmd(loop.args, host, port)
                 ELSE loop.args
    IN  Append(args1, p.exe_image)

\* The sequence debugger_launch_command builds, exe_image being
\* t->vm()->exe_image().
debugger_launch_command_cmd(exe_image, host, port, serve_files, debugger_name) ==
    Append(push_gdb_target_remote_cmd(
               push_default_gdb_options(<<debugger_name>>, serve_files), host, port),
           exe_image)

\* ------------------------------------------------------------- the inputs
S_localhost == <<"1", "2", "7", ".", "0", ".", "0", ".", "1">>
S_otherhost == <<"1", "0", ".", "0", ".", "0", ".", "2">>
S_exe1 == <<"/", "b", "i", "n", "/", "l", "s">>
S_exe2 == <<"a", " ", "b">>
S_garbage == <<"?">>

\* The records a peer writes into the parameter pipe; the port is the 16-bit
\* value the peer stored.
PipeRecords ==
    { [exe_image |-> S_exe1, host |-> S_localhost, port |-> 9999],
      [exe_image |-> S_exe2, host |-> S_otherhost, port |-> 40000] }

\* Records with the ports at the ends of the ranges of short and of
\* unsigned short.
EdgePortRecords ==
    { [exe_image |-> S_exe1, host |-> S_localhost, port |-> p] :
          p \in {0, 32767, 32768, 65535} }

\* The tokens passthrough options are made of.
Tokens ==
    { S_ex, S_continue, S_c, S_empty, S_continue3, S_set_sysroot,
      TargetDirective(S_localhost, 9999) }

OptionLists(n) == UNION { [1..k -> Tokens] : k \in 0..n }

\* The options lists the launch_debugger calls of the process specification
\* are given.
CallOptionLists ==
    { <<>>, <<S_ex, S_continue>>, <<S_ex, S_c, S_ex, S_continue>>, <<S_ex, S_continue3>> }

DebuggerFilePath == S_gdb

\* The byte counts of a record written short by the peer.
PartialSizes == { 1, SizeofParams - 1 }

NoParams == [state |-> "uninit", exe_image |-> <<>>, host |-> <<>>, port |-> 0]
NoFile == [name |-> 0, fd |-> -1]
NoTask == [tid |-> 0, vm |-> FALSE, exe_image |-> <<>>]

\* The tasks emergency_debug and debugger_launch_command are called with;
\* vm is whether t->vm() is non-null.
Tasks ==
    { [tid |-> 77, vm |-> TRUE, exe_image |-> S_exe1],
      [tid |-> 65616, vm |-> TRUE, exe_image |-> S_exe2],
      [tid |-> 77, vm |-> FALSE, exe_image |-> <<>>] }

\* The texts GdbCommandHandler::gdb_macros() returns: the macros of the
\* commands registered at first, and those after one more was registered.
GdbMacrosAtFirst == <<"b", "a", "s", "e", "\n">>
GdbMacrosLater == <<"b", "a", "s", "e", "\n", "m", "o", "r", "e", "\n">>

\* ---------------------------------------------------------------- state
VARIABLES
    pc,                 \* the position of the one thread of control
    calls,              \* top-level calls made so far
    s,                  \* gdb_rr_macros' static string
    gdb_macros,         \* what GdbCommandHandler::gdb_macros() returns now
    gdb_macros_calls,   \* the calls of it made so far
    script,             \* what gdb_rr_macros returned last
    shell_args,         \* the sequence a caller passes to to_shell_string
    shell_string,       \* what to_shell_string returned for it
    saved_debugger_launch_command,
    \* launch_debugger's parameters and locals
    options, serve_files, macros, file, fd, gdb_command_file,
    params, nread, errno, eintr, args,
    \* the operating system: descriptor table, directory, file contents, pipe
    openfds, dirents, fdcontent, pipe,
    \* emergency_debug's parameter and locals, and what it acts on
    t, breakpoints, port, listening, test_monitor_pid, pid, gdb_cmd,
    gdb_cmd_file, signals, stderr_out, cmd, dbg, trace

macrovars == <<gdb_macros, gdb_macros_calls, script>>
tssvars == <<shell_args, shell_string>>
procvars == <<pc, calls, s, macrovars, tssvars, saved_debugger_launch_command>>
ldvars == <<options, serve_files, macros, file, fd, gdb_command_file,
            params, nread, errno, eintr, args>>
osvars == <<openfds, dirents, fdcontent, pipe>>
edvars == <<t, breakpoints, port, listening, test_monitor_pid, pid, gdb_cmd,
            gdb_cmd_file, signals, stderr_out, cmd, dbg, trace>>
vars == <<procvars, ldvars, osvars, edvars>>

\* getpid() of the process.
getpid == 4242

\* The descriptor of the parameter pipe's read end.
params_pipe_fd == 3

LdLocalsInit ==
    /\ options = <<>> /\ serve_files = FALSE /\ macros = <<>>
    /\ file = NoFile /\ fd = -1 /\ gdb_command_file = <<>>
    /\ params = NoParams /\ nread = -1 /\ errno = 0 /\ eintr = 0 /\ args = <<>>

EdLocalsInit ==
    /\ t = NoTask /\ breakpoints = {} /\ port = 0 /\ listening = -1
    /\ test_monitor_pid = [set |-> FALSE, value |-> <<>>] /\ pid = 0
    /\ gdb_cmd = "none" /\ cmd = <<>> /\ dbg = 0 /\ trace = <<>>

OsInit ==
    /\ openfds = {0, 1, 2, params_pipe_fd}
    /\ dirents = {}
    /\ fdcontent = {}
    /\ pipe = [state |-> "open", n |-> 0, rec |-> NoParams]
    /\ gdb_cmd_file = [exists |-> FALSE, content |-> <<>>]
    /\ signals = <<>>
    /\ stderr_out = <<>>

Init ==
    /\ pc = "idle" /\ calls = 0 /\ s = <<>>
    /\ gdb_macros = GdbMacrosAtFirst /\ gdb_macros_calls = 0 /\ script = <<>>
    /\ shell_args = <<>> /\ shell_string = <<>>
    /\ saved_debugger_launch_command = <<>>
    /\ LdLocalsInit /\ EdLocalsInit /\ OsInit

\* -------------------------------------------------------------- the macros
\* The literal text gdb_rr_macros appends.
rr_macros_text == <<"d", "e", "f", "i", "n", "e", " ", "r", "e", "s", "t", "a", "r", "t", "\n">>

\* gdb_rr_macros without the test of s.empty(): the script is built anew.
gdb_rr_macros_uncached(sv) == gdb_macros \o rr_macros_text

\* The value of the static s after a call of gdb_rr_macros that found it sv.
gdb_rr_macros(sv) == IF sv = <<>> THEN gdb_macros \o rr_macros_text ELSE sv

\* ------------------------------------------------------------ the callers
Idle == pc = "idle" /\ calls < MaxCalls

\* A caller invokes launch_debugger(params_pipe_fd, debugger_file_path,
\* options, serve_files); line 222 runs: macros = gdb_rr_macros().
CallLaunchDebugger ==
    /\ Idle
    /\ \E o \in CallOptionLists, sf \in BOOLEAN :
          /\ options' = o
          /\ serve_files' = sf
    /\ calls' = calls + 1
    /\ s' = gdb_rr_macros(s)
    /\ macros' = gdb_rr_macros(s)
    /\ script' = gdb_rr_macros(s)
    /\ gdb_macros_calls' = IF s = <<>> THEN gdb_macros_calls + 1 ELSE gdb_macros_calls
    /\ UNCHANGED <<gdb_macros, tssvars>>
    /\ pc' = "cf_create"
    /\ UNCHANGED <<saved_debugger_launch_command, file, fd, gdb_command_file,
                   params, nread, errno, eintr, args, osvars, edvars>>

\* gdb_init_script(): returns gdb_rr_macros().
CallGdbInitScript ==
    /\ Idle
    /\ calls' = calls + 1
    /\ s' = gdb_rr_macros(s)
    /\ script' = gdb_rr_macros(s)
    /\ gdb_macros_calls' = IF s = <<>> THEN gdb_macros_calls + 1 ELSE gdb_macros_calls
    /\ UNCHANGED <<pc, gdb_macros, tssvars, saved_debugger_launch_command, ldvars, osvars,
                   edvars>>

\* Between two calls one more command is registered with GdbCommandHandler:
\* gdb_macros() returns a longer text from then on.
RegisterCommand ==
    /\ pc = "idle"
    /\ gdb_macros = GdbMacrosAtFirst
    /\ gdb_macros' = GdbMacrosLater
    /\ UNCHANGED <<pc, calls, s, gdb_macros_calls, script, tssvars,
                   saved_debugger_launch_command, ldvars, osvars, edvars>>

\* ------------------------------------------------ create_gdb_command_file
\* FATAL() and CLEAN_FATAL(): the process is terminated with a diagnostic.
FATAL == "fatal"
CLEAN_FATAL == "fatal"

\* ScopedFd::extract(): the descriptor is handed out and the ScopedFd holds
\* -1 from then on.
ScopedFd_extract(f) == [f EXCEPT !.fd = -1]

\* ~ScopedFd(): the descriptor the ScopedFd still owns is closed.
ScopedFd_destroy(open, owned) == IF owned >= 0 THEN open \ {owned} ELSE open

\* The lowest descriptor not in use, as open() and mkstemp() return it.
LowestFreeFd == CHOOSE n \in 0..(Cardinality(openfds)) : n \notin openfds

\* create_temporary_file("rr-gdb-commands-XXXXXX"): a new directory entry
\* and an open descriptor for it, owned by the TempFile's ScopedFd.
CfCreate ==
    /\ pc = "cf_create"
    /\ LET name == CHOOSE n \in 1..(Cardinality(dirents) + 1) : n \notin dirents
           newfd == LowestFreeFd
       IN  /\ file' = [name |-> name, fd |-> newfd]
           /\ dirents' = dirents \cup {name}
           /\ openfds' = openfds \cup {newfd}
    /\ pc' = "cf_extract"
    /\ UNCHANGED <<calls, s, macrovars, tssvars,
                   saved_debugger_launch_command, options, serve_files,
                   macros, fd, gdb_command_file, params, nread, errno, eintr, args,
                   fdcontent, pipe, edvars>>

\* int fd = file.fd.get(): the descriptor stays owned by the ScopedFd.
CfExtractKeepsOwner ==
    /\ pc = "cf_extract"
    /\ fd' = file.fd
    /\ pc' = "cf_unlink"
    /\ UNCHANGED <<calls, s, macrovars, tssvars,
                   saved_debugger_launch_command, options, serve_files,
                   macros, file, gdb_command_file, params, nread, errno, eintr, args,
                   osvars, edvars>>

\* int fd = file.fd.extract(): the ScopedFd gives the descriptor up and
\* holds -1 from here on.
CfExtract ==
    /\ pc = "cf_extract"
    /\ fd' = file.fd
    /\ file' = ScopedFd_extract(file)
    /\ pc' = "cf_unlink"
    /\ UNCHANGED <<calls, s, macrovars, tssvars,
                   saved_debugger_launch_command, options, serve_files,
                   macros, gdb_command_file, params, nread, errno, eintr, args,
                   osvars, edvars>>

\* unlink(file.name.c_str()).
CfUnlink ==
    /\ pc = "cf_unlink"
    /\ dirents' = dirents \ {file.name}
    /\ pc' = "cf_write"
    /\ UNCHANGED <<calls, s, macrovars, tssvars,
                   saved_debugger_launch_command, ldvars,
                   openfds, fdcontent, pipe, edvars>>

\* written = write(fd, macros.c_str(), len): all of the script, or less
\* (a short write or an error), which is FATAL().
CfWrite ==
    /\ pc = "cf_write"
    /\ \/ /\ fdcontent' = fdcontent \cup {[fd |-> fd, content |-> macros]}
          /\ pc' = "cf_return"
       \/ /\ fdcontent' = fdcontent \cup {[fd |-> fd, content |-> <<>>]}
          /\ pc' = FATAL
    /\ UNCHANGED <<calls, s, macrovars, tssvars,
                   saved_debugger_launch_command, ldvars,
                   openfds, dirents, pipe, edvars>>

\* The path "/proc/<getpid()>/fd/<fd>".
ProcFdPath(p, n) == S_proc \o Dec(p) \o S_fd \o Dec(n)

\* The return of create_gdb_command_file: the path is built, and the
\* TempFile is destroyed, its ScopedFd closing the descriptor it still owns.
CfReturn ==
    /\ pc = "cf_return"
    /\ gdb_command_file' = ProcFdPath(getpid, fd)
    /\ openfds' = ScopedFd_destroy(openfds, file.fd)
    /\ file' = NoFile
    /\ pc' = "ld_read"
    /\ UNCHANGED <<calls, s, macrovars, tssvars,
                   saved_debugger_launch_command, options, serve_files,
                   macros, fd, params, nread, errno, eintr, args,
                   dirents, fdcontent, pipe, edvars>>

\* ------------------------------------------------------ the parameter pipe
\* The peer writes one record into the pipe: whole, or short.
PeerWrite ==
    /\ pc = "ld_read"
    /\ pipe.state = "open"
    /\ \E r \in PipeRecords, n \in PartialSizes \cup {SizeofParams} :
          pipe' = [state |-> "data", n |-> n, rec |-> r]
    /\ UNCHANGED <<procvars, ldvars, openfds, dirents, fdcontent, edvars>>

\* The peer closes its end without writing.
PeerClose ==
    /\ pc = "ld_read"
    /\ pipe.state = "open"
    /\ pipe' = [pipe EXCEPT !.state = "closed"]
    /\ UNCHANGED <<procvars, ldvars, openfds, dirents, fdcontent, edvars>>

\* The record as launch_debugger's DebuggerParams holds it: port is a short.
ReadRecord(r) ==
    [state |-> "read", exe_image |-> r.exe_image, host |-> r.host,
     port |-> ToShort(r.port)]

\* A loop without the return on end of file: a read of 0 leaves the loop.
AfterReadZeroAsserts(n, e) ==
    IF n # -1 \/ e # EINTR THEN "ld_assert"
    ELSE "ld_read"

\* A loop that leaves on every failed read, interrupted or not.
AfterReadNoRetry(n, e) ==
    IF n = 0 THEN "ld_return"
    ELSE "ld_assert"

\* Where the loop goes after a read that returned n with errno e: it
\* returns on 0, reads again on (-1, EINTR), and leaves the loop otherwise.
AfterRead(n, e) ==
    IF n = 0 THEN "ld_return"
    ELSE IF n # -1 \/ e # EINTR THEN "ld_assert"
    ELSE "ld_read"

\* One iteration of the loop of lines 227-236: read(params_pipe_fd, &params,
\* sizeof(params)) blocks while the pipe is empty and its write end is open,
\* and a signal interrupts it only then; otherwise it fails, returns the
\* bytes the peer wrote, or returns 0 at end of file.
LdRead ==
    /\ pc = "ld_read"
    /\ \/ /\ pipe.state = "open"
          /\ eintr < MaxEintr
          /\ nread' = -1 /\ errno' = EINTR
          /\ eintr' = eintr + 1
          /\ UNCHANGED <<params, pipe>>
       \/ /\ nread' = -1 /\ errno' = EIO
          /\ UNCHANGED <<params, pipe, eintr>>
       \/ /\ pipe.state = "data"
          /\ nread' = pipe.n
          /\ params' = IF pipe.n = SizeofParams THEN ReadRecord(pipe.rec)
                       ELSE [NoParams EXCEPT !.state = "partial"]
          /\ pipe' = [pipe EXCEPT !.state = "drained"]
          /\ UNCHANGED <<errno, eintr>>
       \/ /\ pipe.state = "closed"
          /\ nread' = 0
          /\ UNCHANGED <<params, pipe, errno, eintr>>
    /\ pc' = AfterRead(nread', errno')
    /\ UNCHANGED <<calls, s, macrovars, tssvars,
                   saved_debugger_launch_command, options, serve_files,
                   macros, file, fd, gdb_command_file, args,
                   openfds, dirents, fdcontent, edvars>>

\* DEBUG_ASSERT(cond): the process goes on when cond holds and is terminated
\* when it does not.
DEBUG_ASSERT(cond) == IF cond THEN "ld_args" ELSE FATAL

\* Line 237 with the comparison weakened to nread > 0.
LdAssertPositive ==
    /\ pc = "ld_assert"
    /\ pc' = DEBUG_ASSERT(nread > 0)
    /\ UNCHANGED <<calls, s, macrovars, tssvars,
                   saved_debugger_launch_command, ldvars, osvars, edvars>>

\* Line 237: DEBUG_ASSERT(nread == sizeof(params)).
LdAssert ==
    /\ pc = "ld_assert"
    /\ pc' = DEBUG_ASSERT(nread = SizeofParams)
    /\ UNCHANGED <<calls, s, macrovars, tssvars,
                   saved_debugger_launch_command, ldvars, osvars, edvars>>

\* Lines 239-256: the argument list.
LdBuildArgs ==
    /\ pc = "ld_args"
    /\ args' = launch_debugger_args(DebuggerFilePath, options, serve_files,
                                    gdb_command_file, params)
    /\ pc' = "ld_exec"
    /\ UNCHANGED <<calls, s, macrovars, tssvars,
                   saved_debugger_launch_command, options, serve_files,
                   macros, file, fd, gdb_command_file, params, nread, errno, eintr,
                   osvars, edvars>>

\* Lines 258-266 with the failure of execvpe returning to the caller.
LdExecvpeReturns ==
    /\ pc = "ld_exec"
    /\ \/ pc' = "execed"
       \/ pc' = "ld_return"
    /\ UNCHANGED <<calls, s, macrovars, tssvars,
                   saved_debugger_launch_command, ldvars, osvars, edvars>>

\* Lines 258-266: execvpe(debugger_file_path, args, env) replaces the process
\* image, keeping the descriptor table, or fails, and CLEAN_FATAL() then
\* terminates the process.
LdExecvpe ==
    /\ pc = "ld_exec"
    /\ \/ pc' = "execed"
       \/ pc' = CLEAN_FATAL
    /\ UNCHANGED <<calls, s, macrovars, tssvars,
                   saved_debugger_launch_command, ldvars, osvars, edvars>>

\* launch_debugger returns (line 231): its locals go out of scope. The
\* descriptor of the command file belongs to no object and stays open.
LdReturn ==
    /\ pc = "ld_return"
    /\ pc' = "idle"
    /\ options' = <<>> /\ serve_files' = FALSE /\ macros' = <<>>
    /\ file' = NoFile /\ fd' = -1 /\ gdb_command_file' = <<>>
    /\ params' = NoParams /\ nread' = -1 /\ errno' = 0 /\ eintr' = 0 /\ args' = <<>>
    /\ pipe' = [state |-> "open", n |-> 0, rec |-> NoParams]
    /\ UNCHANGED <<calls, s, macrovars, tssvars,
                   saved_debugger_launch_command,
                   openfds, dirents, fdcontent, edvars>>

\* -------------------------------------------------------- emergency_debug
\* localhost_addr.
localhost_addr == S_localhost

\* The values getenv("RUNNING_UNDER_TEST_MONITOR") returns: a null pointer
\* when the variable is unset, its text otherwise.
MonitorEnv ==
    { [set |-> FALSE, value |-> <<>>],
      [set |-> TRUE, value |-> <<"4", "3", "0", "0">>],
      [set |-> TRUE, value |-> <<"0">>],
      [set |-> TRUE, value |-> <<>>],
      [set |-> TRUE, value |-> <<"x">>],
      [set |-> TRUE, value |-> <<"-", "1">>] }

IsDigit(c) == c \in {"0", "1", "2", "3", "4", "5", "6", "7", "8", "9"}
DigitVal(c) == CHOOSE d \in 0..9 : Digit(d) = c

RECURSIVE atoi_digits(_, _, _)
atoi_digits(str, i, acc) ==
    IF i > Len(str) \/ ~IsDigit(str[i]) THEN acc
    ELSE atoi_digits(str, i + 1, acc * 10 + DigitVal(str[i]))

RECURSIVE atoi_from(_, _)
atoi_from(str, i) ==
    IF i > Len(str) THEN 0
    ELSE IF str[i] = " " THEN atoi_from(str, i + 1)
    ELSE IF str[i] = "-" THEN 0 - atoi_digits(str, i + 1, 0)
    ELSE IF str[i] = "+" THEN atoi_digits(str, i + 1, 0)
    ELSE atoi_digits(str, i, 0)

\* atoi(str): leading blanks, an optional sign, then the leading digits.
atoi(str) == atoi_from(str, 1)

Event(op, port_, pid_, dbg_, tid_) ==
    [op |-> op, port |-> port_, pid |-> pid_, dbg |-> dbg_, tid |-> tid_]

\* The file gdb_cmd of the working directory as a call of emergency_debug
\* finds it: missing, or left there earlier.
GdbCmdFilesBefore ==
    { [exists |-> FALSE, content |-> <<>>],
      [exists |-> TRUE, content |-> <<"o", "l", "d">>] }

\* A caller invokes emergency_debug(t).
CallEmergencyDebug ==
    /\ Idle
    /\ \E task \in Tasks :
          /\ t' = task
          /\ breakpoints' = IF task.vm THEN {"bp"} ELSE {}
    /\ gdb_cmd_file' \in GdbCmdFilesBefore
    /\ calls' = calls + 1
    /\ trace' = <<>>
    /\ pc' = "ed_breakpoints"
    /\ UNCHANGED <<s, macrovars, tssvars, saved_debugger_launch_command, ldvars, osvars,
                   port, listening, test_monitor_pid, pid, gdb_cmd,
                   signals, stderr_out, cmd, dbg>>

\* Lines 274-276: if (t->vm()) t->vm()->remove_all_breakpoints().
EdRemoveBreakpoints ==
    /\ pc = "ed_breakpoints"
    /\ IF t.vm
       THEN /\ breakpoints' = {}
            /\ trace' = Append(trace, Event("remove_all_breakpoints", 0, 0, 0, t.tid))
       ELSE UNCHANGED <<breakpoints, trace>>
    /\ pc' = "ed_socket"
    /\ UNCHANGED <<calls, s, macrovars, tssvars,
                   saved_debugger_launch_command, ldvars, osvars,
                   t, port, listening, test_monitor_pid, pid, gdb_cmd, gdb_cmd_file,
                   signals, stderr_out, cmd, dbg>>

\* open_socket(localhost_addr, &port, PROBE_PORT): a listening socket on the
\* first free port at or above the hint.
open_socket_ports(hint) == { hint + k : k \in 0..MaxProbe }

\* Lines 287-288 with the probe given a copy of port: the socket is bound to
\* the port found, port keeps the hint.
EdOpenSocketKeepsHint ==
    /\ pc = "ed_socket"
    /\ \E bound \in open_socket_ports(ToUShort(t.tid)) :
          /\ port' = ToUShort(t.tid)
          /\ trace' = Append(trace, Event("open_socket", bound, 0, 0, t.tid))
    /\ listening' = LowestFreeFd
    /\ openfds' = openfds \cup {LowestFreeFd}
    /\ pc' = "ed_getenv"
    /\ UNCHANGED <<calls, s, macrovars, tssvars,
                   saved_debugger_launch_command, ldvars,
                   dirents, fdcontent, pipe,
                   t, breakpoints, test_monitor_pid, pid, gdb_cmd, gdb_cmd_file,
                   signals, stderr_out, cmd, dbg>>

\* Lines 282-288: port = t->tid as unsigned short, then the probe.
EdOpenSocket ==
    /\ pc = "ed_socket"
    /\ \E bound \in open_socket_ports(ToUShort(t.tid)) :
          /\ port' = bound
          /\ trace' = Append(trace, Event("open_socket", bound, 0, 0, t.tid))
    /\ listening' = LowestFreeFd
    /\ openfds' = openfds \cup {LowestFreeFd}
    /\ pc' = "ed_getenv"
    /\ UNCHANGED <<calls, s, macrovars, tssvars,
                   saved_debugger_launch_command, ldvars,
                   dirents, fdcontent, pipe,
                   t, breakpoints, test_monitor_pid, pid, gdb_cmd, gdb_cmd_file,
                   signals, stderr_out, cmd, dbg>>

\* Lines 290-293: dump_rr_stack(), then getenv and the branch on its result.
EdGetenv ==
    /\ pc = "ed_getenv"
    /\ \E v \in MonitorEnv :
          /\ test_monitor_pid' = v
          /\ pc' = IF v.set THEN "ed_fopen" ELSE "ed_print"
    /\ UNCHANGED <<calls, s, macrovars, tssvars,
                   saved_debugger_launch_command, ldvars, osvars,
                   t, breakpoints, port, listening, pid, gdb_cmd, gdb_cmd_file,
                   signals, stderr_out, cmd, dbg, trace>>

\* Lines 294-298: pid = atoi(test_monitor_pid); fopen("gdb_cmd", "w") creates
\* or truncates the file, or fails and returns a null pointer.
EdFopen ==
    /\ pc = "ed_fopen"
    /\ pid' = atoi(test_monitor_pid.value)
    /\ \/ /\ gdb_cmd' = "open"
          /\ gdb_cmd_file' = [exists |-> TRUE, content |-> <<>>]
          /\ pc' = "ed_write"
       \/ /\ gdb_cmd' = "null"
          /\ UNCHANGED gdb_cmd_file
          /\ pc' = "ed_kill"
    /\ UNCHANGED <<calls, s, macrovars, tssvars,
                   saved_debugger_launch_command, ldvars, osvars,
                   t, breakpoints, port, listening, test_monitor_pid,
                   signals, stderr_out, cmd, dbg, trace>>

\* t->vm()->exe_image() inside debugger_launch_command: the image path, or,
\* when t->vm() is null, the outcomes of dereferencing a null pointer: the
\* process is killed ("crash") or some value is read.
ExeImageOutcomes(task) ==
    IF task.vm THEN { [crash |-> FALSE, exe_image |-> task.exe_image] }
    ELSE { [crash |-> TRUE, exe_image |-> <<>>],
           [crash |-> FALSE, exe_image |-> S_garbage] }

\* Lines 299-301 without the fclose.
EdWriteCmdNoClose ==
    /\ pc = "ed_write"
    /\ \E o \in ExeImageOutcomes(t) :
          IF o.crash
          THEN /\ pc' = "crashed"
               /\ UNCHANGED <<cmd, saved_debugger_launch_command, gdb_cmd,
                              gdb_cmd_file, trace>>
          ELSE /\ cmd' = debugger_launch_command_cmd(o.exe_image, localhost_addr,
                                                     port, FALSE, S_gdb)
               /\ saved_debugger_launch_command' = to_shell_string(cmd')
               /\ gdb_cmd' = "open"
               /\ gdb_cmd_file' = [gdb_cmd_file EXCEPT !.content = to_shell_string(cmd')]
               /\ trace' = Append(trace, Event("emit_gdb_cmd", port, pid, 0, t.tid))
               /\ pc' = "ed_kill"
    /\ UNCHANGED <<calls, s, macrovars, tssvars, ldvars, osvars,
                   t, breakpoints, port, listening, test_monitor_pid, pid,
                   signals, stderr_out, dbg>>

\* Lines 299-301: fputs(to_shell_string(debugger_launch_command(t,
\* localhost_addr, port, false, "gdb")), gdb_cmd); fclose(gdb_cmd). The
\* results of fputs and fclose are not looked at: the text reaches the file,
\* or an I/O error leaves the file without it.
EdWriteCmd ==
    /\ pc = "ed_write"
    /\ \E o \in ExeImageOutcomes(t) :
          IF o.crash
          THEN /\ pc' = "crashed"
               /\ UNCHANGED <<cmd, saved_debugger_launch_command, gdb_cmd,
                              gdb_cmd_file, trace>>
          ELSE /\ cmd' = debugger_launch_command_cmd(o.exe_image, localhost_addr,
                                                     port, FALSE, S_gdb)
               /\ saved_debugger_launch_command' = to_shell_string(cmd')
               /\ \/ /\ gdb_cmd' = "closed"
                     /\ gdb_cmd_file' =
                            [gdb_cmd_file EXCEPT !.content = to_shell_string(cmd')]
                  \/ /\ gdb_cmd' = "closed_error"
                     /\ UNCHANGED gdb_cmd_file
               /\ trace' = Append(trace, Event("emit_gdb_cmd", port, pid, 0, t.tid))
               /\ pc' = "ed_kill"
    /\ UNCHANGED <<calls, s, macrovars, tssvars, ldvars, osvars,
                   t, breakpoints, port, listening, test_monitor_pid, pid,
                   signals, stderr_out, dbg>>

\* kill(pid, sig): who the signal goes to. A positive pid names one process,
\* 0 the process group of the caller, -1 every process the caller may
\* signal, another negative pid the process group -pid.
kill_recipients(p) ==
    IF p > 0 THEN [kind |-> "process", id |-> p]
    ELSE IF p = 0 THEN [kind |-> "own_group", id |-> 0]
    ELSE IF p = -1 THEN [kind |-> "all", id |-> 0]
    ELSE [kind |-> "group", id |-> 0 - p]

\* Line 303: kill(pid, SIGURG).
EdKill ==
    /\ pc = "ed_kill"
    /\ signals' = Append(signals, [pid |-> pid, sig |-> SIGURG])
    /\ trace' = Append(trace, Event("kill", port, pid, 0, t.tid))
    /\ pc' = "ed_await"
    /\ UNCHANGED <<calls, s, macrovars, tssvars,
                   saved_debugger_launch_command, ldvars, osvars,
                   t, breakpoints, port, listening, test_monitor_pid, pid, gdb_cmd,
                   gdb_cmd_file, stderr_out, cmd, dbg>>

\* Lines 305-307 with debugger_launch_command not storing the rendering.
EdPrintNoSave ==
    /\ pc = "ed_print"
    /\ \E o \in ExeImageOutcomes(t) :
          IF o.crash
          THEN /\ pc' = "crashed"
               /\ UNCHANGED <<cmd, stderr_out, trace>>
          ELSE /\ cmd' = debugger_launch_command_cmd(o.exe_image, localhost_addr,
                                                     port, FALSE, S_gdb)
               /\ stderr_out' = to_shell_string(cmd')
               /\ trace' = Append(trace, Event("emit_stderr", port, 0, 0, t.tid))
               /\ pc' = "ed_await"
    /\ UNCHANGED <<calls, s, macrovars, tssvars,
                   saved_debugger_launch_command, ldvars, osvars,
                   t, breakpoints, port, listening, test_monitor_pid, pid, gdb_cmd,
                   gdb_cmd_file, signals, dbg>>

\* Lines 305-307: the advisory command goes to stderr.
EdPrint ==
    /\ pc = "ed_print"
    /\ \E o \in ExeImageOutcomes(t) :
          IF o.crash
          THEN /\ pc' = "crashed"
               /\ UNCHANGED <<cmd, saved_debugger_launch_command, stderr_out, trace>>
          ELSE /\ cmd' = debugger_launch_command_cmd(o.exe_image, localhost_addr,
                                                     port, FALSE, S_gdb)
               /\ saved_debugger_launch_command' = to_shell_string(cmd')
               /\ stderr_out' = to_shell_string(cmd')
               /\ trace' = Append(trace, Event("emit_stderr", port, 0, 0, t.tid))
               /\ pc' = "ed_await"
    /\ UNCHANGED <<calls, s, macrovars, tssvars, ldvars, osvars,
                   t, breakpoints, port, listening, test_monitor_pid, pid, gdb_cmd,
                   gdb_cmd_file, signals, dbg>>

\* Lines 309-310: GdbServerConnection::await_connection(t, listen_fd,
\* features) blocks until a client connects, and returns the connection.
EdAwait ==
    /\ pc = "ed_await"
    /\ dbg' = listening
    /\ trace' = Append(trace, Event("await_connection", port, 0, listening, t.tid))
    /\ pc' = "ed_serve"
    /\ UNCHANGED <<calls, s, macrovars, tssvars,
                   saved_debugger_launch_command, ldvars, osvars,
                   t, breakpoints, port, listening, test_monitor_pid, pid, gdb_cmd,
                   gdb_cmd_file, signals, stderr_out, cmd>>

\* Line 311 followed by a jump back to the accept.
EdServeAgain ==
    /\ pc = "ed_serve"
    /\ trace' = Append(trace, Event("serve_emergency_debugger", port, 0, dbg, t.tid))
    /\ pc' = "ed_await"
    /\ UNCHANGED <<calls, s, macrovars, tssvars,
                   saved_debugger_launch_command, ldvars, osvars,
                   t, breakpoints, port, listening, test_monitor_pid, pid, gdb_cmd,
                   gdb_cmd_file, signals, stderr_out, cmd, dbg>>

\* Line 311: GdbServer::serve_emergency_debugger(std::move(dbg), t).
EdServe ==
    /\ pc = "ed_serve"
    /\ trace' = Append(trace, Event("serve_emergency_debugger", port, 0, dbg, t.tid))
    /\ pc' = "ed_return"
    /\ UNCHANGED <<calls, s, macrovars, tssvars,
                   saved_debugger_launch_command, ldvars, osvars,
                   t, breakpoints, port, listening, test_monitor_pid, pid, gdb_cmd,
                   gdb_cmd_file, signals, stderr_out, cmd, dbg>>

\* Line 312: emergency_debug returns; listen_fd, a ScopedFd, closes the
\* socket, the other locals go out of scope. What the call wrote to stderr
\* and to gdb_cmd and the signals it sent are followed no further.
EdReturn ==
    /\ pc = "ed_return"
    /\ openfds' = ScopedFd_destroy(openfds, listening)
    /\ t' = NoTask /\ breakpoints' = {} /\ port' = 0 /\ listening' = -1
    /\ test_monitor_pid' = [set |-> FALSE, value |-> <<>>] /\ pid' = 0
    /\ gdb_cmd' = "none" /\ cmd' = <<>> /\ dbg' = 0 /\ trace' = <<>>
    /\ gdb_cmd_file' = [exists |-> FALSE, content |-> <<>>]
    /\ signals' = <<>> /\ stderr_out' = <<>>
    /\ pc' = "idle"
    /\ UNCHANGED <<calls, s, macrovars, tssvars,
                   saved_debugger_launch_command, ldvars,
                   dirents, fdcontent, pipe>>

\* ------------------------------------------------ debugger_launch_command
Hosts == { S_localhost }
Ports == { 9999, 40000 }

\* A caller invokes debugger_launch_command(t, host, port, serve_files,
\* debugger_name) and drops the result.
CallDebuggerLaunchCommand ==
    /\ Idle
    /\ calls' = calls + 1
    /\ \E task \in Tasks, h \in Hosts, p \in Ports, sf \in BOOLEAN :
       \E o \in ExeImageOutcomes(task) :
          IF o.crash
          THEN /\ pc' = "crashed"
               /\ UNCHANGED <<saved_debugger_launch_command, cmd, serve_files>>
          ELSE /\ cmd' = debugger_launch_command_cmd(o.exe_image, h, p, sf, S_gdb)
               /\ saved_debugger_launch_command' = to_shell_string(cmd')
               /\ serve_files' = sf
               /\ pc' = "dlc_return"
    /\ UNCHANGED <<s, macrovars, tssvars, options, macros, file, fd, gdb_command_file,
                   params, nread, errno, eintr, args, osvars,
                   t, breakpoints, port, listening, test_monitor_pid, pid, gdb_cmd,
                   gdb_cmd_file, signals, stderr_out, dbg, trace>>

\* The caller is done with the sequence debugger_launch_command returned.
DlcReturn ==
    /\ pc = "dlc_return"
    /\ cmd' = <<>>
    /\ serve_files' = FALSE
    /\ pc' = "idle"
    /\ UNCHANGED <<calls, s, macrovars, tssvars,
                   saved_debugger_launch_command, options, macros, file,
                   fd, gdb_command_file, params, nread, errno, eintr, args, osvars,
                   t, breakpoints, port, listening, test_monitor_pid, pid, gdb_cmd,
                   gdb_cmd_file, signals, stderr_out, dbg, trace>>

\* ------------------------------------------------------ the specifications
Next ==
    \/ CallLaunchDebugger \/ CallGdbInitScript \/ RegisterCommand
    \/ CallEmergencyDebug \/ CallDebuggerLaunchCommand \/ DlcReturn
    \/ CfCreate \/ CfExtract \/ CfUnlink \/ CfWrite \/ CfReturn
    \/ PeerWrite \/ PeerClose \/ LdRead \/ LdAssert \/ LdBuildArgs \/ LdExecvpe
    \/ LdReturn
    \/ EdRemoveBreakpoints \/ EdOpenSocket \/ EdGetenv \/ EdFopen \/ EdWriteCmd
    \/ EdKill \/ EdPrint \/ EdAwait \/ EdServe \/ EdReturn

Spec == Init /\ [][Next]_vars

\* launch_debugger is one thread that nothing stops: a read whose result is
\* there returns, and the statements after the loop run.
FairSpec ==
    /\ Spec
    /\ WF_vars(LdRead)
    /\ WF_vars(LdAssert \/ LdBuildArgs \/ LdExecvpe \/ LdReturn)

\* The argument-building specification: launch_debugger at line 239, with a
\* whole record read, for every options list of up to MaxOpts tokens; and the
\* process before its first call, from where debugger_launch_command is
\* called.
InitArgs ==
    \/ Init
    \/ /\ pc = "ld_args" /\ calls = 1
       /\ gdb_macros = GdbMacrosAtFirst /\ gdb_macros_calls = 1
       /\ s = gdb_rr_macros(<<>>)
       /\ script = gdb_rr_macros(<<>>)
       /\ shell_args = <<>> /\ shell_string = <<>>
       /\ saved_debugger_launch_command = <<>>
       /\ options \in OptionLists(MaxOpts)
       /\ serve_files \in BOOLEAN
       /\ macros = gdb_rr_macros(<<>>)
       /\ file = NoFile /\ fd = 4
       /\ gdb_command_file = ProcFdPath(getpid, 4)
       /\ \E r \in PipeRecords \cup EdgePortRecords :
             /\ params = ReadRecord(r)
             /\ pipe = [state |-> "drained", n |-> SizeofParams, rec |-> r]
       /\ nread = SizeofParams /\ errno = 0 /\ eintr = 0 /\ args = <<>>
       /\ EdLocalsInit
       /\ openfds = {0, 1, 2, params_pipe_fd, 4}
       /\ dirents = {}
       /\ fdcontent = {[fd |-> 4, content |-> gdb_rr_macros(<<>>)]}
       /\ gdb_cmd_file = [exists |-> FALSE, content |-> <<>>]
       /\ signals = <<>>
       /\ stderr_out = <<>>

NextArgs ==
    \/ LdBuildArgs \/ LdExecvpe
    \/ CallDebuggerLaunchCommand \/ DlcReturn

SpecArgs == InitArgs /\ [][NextArgs]_vars

\* ------------------------------------------------ to_shell_string, alone
\* The strings the sequences passed to to_shell_string are made of: empty,
\* plain, with a blank, with a backslash, a double quote, a dollar sign,
\* and one with a single quote.
ShellWords ==
    { <<>>, <<"a">>, <<"a", " ", "b">>, <<"\\">>, <<"\"", "$">>, <<"i", "'", "s">> }

MaxArgs == 3

ShellArgLists == UNION { [1..k -> ShellWords] : k \in 0..MaxArgs }

\* A caller is about to call to_shell_string(shell_args).
InitShell ==
    /\ pc = "tss_call" /\ calls = 1 /\ s = <<>>
    /\ gdb_macros = GdbMacrosAtFirst /\ gdb_macros_calls = 0 /\ script = <<>>
    /\ shell_args \in ShellArgLists /\ shell_string = <<>>
    /\ saved_debugger_launch_command = <<>>
    /\ LdLocalsInit /\ EdLocalsInit /\ OsInit

\* Lines 202-208: to_shell_string(args) returns.
ToShellString ==
    /\ pc = "tss_call"
    /\ shell_string' = to_shell_string(shell_args)
    /\ pc' = "tss_return"
    /\ UNCHANGED <<calls, s, macrovars, shell_args, saved_debugger_launch_command,
                   ldvars, osvars, edvars>>

SpecShell == InitShell /\ [][ToShellString]_vars

\* ---------------------------------------------- what the claims speak of
\* a is a prefix of b (the empty string and b itself included).
IsPrefix(a, b) == Len(a) <= Len(b) /\ SubSeq(b, 1, Len(a)) = a

\* seq holds "-ex" at i and the token tok right after it.
PairAt(seq, i, tok) ==
    /\ i >= 1 /\ i + 1 <= Len(seq)
    /\ seq[i] = S_ex /\ seq[i + 1] = tok

PairCount(seq, tok) == Cardinality({ i \in 1..Len(seq) : PairAt(seq, i, tok) })

\* The places of seq where "-ex" is followed by exactly "continue", and where
\* it is followed by a prefix of "continue".
ContinuePairs(seq) == { i \in 1..Len(seq) : PairAt(seq, i, S_continue) }
PrefixPairs(seq) ==
    { i \in 1..Len(seq) : i + 1 <= Len(seq) /\ seq[i] = S_ex
                            /\ IsPrefix(seq[i + 1], S_continue) }

Min(S) == CHOOSE m \in S : \A n \in S : m <= n

\* The directive launch_debugger builds from the record it read.
ParamsTarget == TargetDirective(params.host, ToUShort(params.port))

\* The arguments launch_debugger pushes before the passthrough options.
OptBase == IF serve_files THEN 5 ELSE 7

Built == pc \in {"ld_exec", "execed"} /\ args # <<>>

\* C1 as stated: when the options hold "-ex" followed by exactly "continue",
\* the built sequence holds the target pair exactly once, and that pair sits
\* immediately before the first ("-ex", "continue") pair of the sequence.
C1_Original ==
    (Built /\ ContinuePairs(options) # {}) =>
        /\ PairCount(args, ParamsTarget) = 1
        /\ PairAt(args, Min(ContinuePairs(args)) - 2, ParamsTarget)

\* C1, amended: when the options hold "-ex" followed by a prefix of
\* "continue" (the empty string, "c", ..., "continue"), launch_debugger
\* inserts the target pair exactly once (one more than the options hold
\* themselves), immediately before the first such pair; the options before
\* it and from it on are copied in order.
C1_TargetBeforeFirstPrefixPair ==
    (Built /\ PrefixPairs(options) # {}) =>
        LET j == Min(PrefixPairs(options))
        IN  /\ PairCount(args, ParamsTarget) = PairCount(options, ParamsTarget) + 1
            /\ PairAt(args, OptBase + j, ParamsTarget)
            /\ SubSeq(args, OptBase + 1, OptBase + j - 1) = SubSeq(options, 1, j - 1)
            /\ SubSeq(args, OptBase + j + 2, Len(args) - 1)
                   = SubSeq(options, j, Len(options))

\* A prefix pair ("-ex", "c") ahead of the ("-ex", "continue") pair.
C1_Witness ==
    /\ Built
    /\ options = <<S_ex, S_c, S_ex, S_continue>>
    /\ PairAt(args, OptBase + 1, ParamsTarget)

\* C2 as stated: when no "-ex" of the options is followed by exactly
\* "continue", the built sequence holds the target pair exactly once, after
\* all the options and immediately before the image path.
C2_Original ==
    (Built /\ ContinuePairs(options) = {}) =>
        /\ PairCount(args, ParamsTarget) = 1
        /\ PairAt(args, Len(args) - 2, ParamsTarget)
        /\ SubSeq(args, OptBase + 1, OptBase + Len(options)) = options
        /\ args[Len(args)] = params.exe_image

\* C2, amended: when no "-ex" of the options is followed by a prefix of
\* "continue", launch_debugger appends the target pair exactly once (one more
\* than the options hold themselves), after all the options and immediately
\* before the image path.
C2_TargetAppendedAtEnd ==
    (Built /\ PrefixPairs(options) = {}) =>
        /\ PairCount(args, ParamsTarget) = PairCount(options, ParamsTarget) + 1
        /\ PairAt(args, Len(args) - 2, ParamsTarget)
        /\ SubSeq(args, OptBase + 1, OptBase + Len(options)) = options
        /\ Len(args) = OptBase + Len(options) + 3
        /\ args[Len(args)] = params.exe_image

\* "-ex" followed by "continue 3", and a trailing "-ex": nothing matches.
C2_Witness ==
    /\ Built
    /\ options = <<S_ex, S_continue3, S_ex>>
    /\ PairAt(args, Len(args) - 2, ParamsTarget)

\* C3 as stated: both built sequences hold ("-ex", "set sysroot /") when
\* serve_files is false and do not hold it when serve_files is true.
C3_Original ==
    /\ Built => (PairCount(args, S_set_sysroot) > 0 <=> ~serve_files)
    /\ pc = "dlc_return" => (PairCount(cmd, S_set_sysroot) > 0 <=> ~serve_files)

\* C3, amended: with serve_files false both sequences hold
\* ("-ex", "set sysroot /") right after "-l", "10000"; with serve_files true
\* the advisory sequence holds no such pair and the bootstrap sequence holds
\* only those of the passthrough options: the code adds none.
C3_SysrootIffNotServeFiles ==
    /\ Built =>
          /\ PairAt(args, 4, S_set_sysroot) <=> ~serve_files
          /\ PairCount(args, S_set_sysroot)
                 = PairCount(options, S_set_sysroot) + (IF serve_files THEN 0 ELSE 1)
    /\ pc = "dlc_return" =>
          /\ PairAt(cmd, 4, S_set_sysroot) <=> ~serve_files
          /\ PairCount(cmd, S_set_sysroot) = (IF serve_files THEN 0 ELSE 1)

\* serve_files true and the options bringing their own sysroot pair.
C3_Witness ==
    /\ Built
    /\ serve_files
    /\ options = <<S_ex, S_set_sysroot>>
    /\ PairCount(args, S_set_sysroot) = 1

\* The record the peer wrote, as launch_debugger is to render it.
PeerTarget == TargetDirective(pipe.rec.host, pipe.rec.port)

\* After the loop of lines 227-236 and before launch_debugger is left.
AfterLoop == pc \in {"ld_assert", "ld_args", "ld_exec", "execed"}

\* C4: a read of exactly sizeof(DebuggerParams) bytes leads to the exec call,
\* with the target directive and the image path built from the record the
\* peer wrote; a read of 0 bytes makes launch_debugger return with no
\* argument built, no exec and no fatal termination.
C4_ReadOutcomes ==
    /\ nread = SizeofParams =>
          /\ pipe.n = SizeofParams
          /\ AfterLoop \/ (pc = "fatal" /\ args # <<>>)
          /\ args # <<>> =>
                /\ args[1] = DebuggerFilePath
                /\ PairCount(args, PeerTarget) >= 1
                /\ args[Len(args)] = pipe.rec.exe_image
    /\ nread = 0 => (pc = "ld_return" /\ args = <<>> /\ pipe.state = "closed")
    /\ pc = "ld_return" => nread = 0

\* An exec with the record of port 40000 (negative as a short), in a process
\* whose earlier launch_debugger call returned after a read of 0 bytes.
C4_Witness ==
    /\ pc = "execed"
    /\ nread = SizeofParams
    /\ pipe.rec.port = 40000
    /\ PairAt(args, Len(args) - 2, PeerTarget)
    /\ fd = 5

\* C5: a read that returns a positive count below sizeof(DebuggerParams), or
\* -1 with an errno other than EINTR, ends in fatal termination; the argument
\* building and execvpe are reached only with the whole record in params.
C5_OtherReadsAreFatal ==
    /\ ((nread > 0 /\ nread < SizeofParams) \/ (nread = -1 /\ errno = EIO)) =>
          pc \in {"ld_assert", "fatal"}
    /\ pc \in {"ld_args", "ld_exec", "execed"} =>
          /\ nread = SizeofParams
          /\ params = ReadRecord(pipe.rec)

\* The process terminated after a read one byte short of the record.
C5_Witness ==
    /\ pc = "fatal"
    /\ nread = SizeofParams - 1
    /\ params.state = "partial"
    /\ args = <<>>

\* A read of the loop has just been interrupted.
Interrupted == nread = -1 /\ errno = EINTR

\* C6: after an interrupted read the loop reads again, with nothing but the
\* read's result changed; the loop is left only by a read that was not
\* interrupted, and where it goes depends on that read's result alone; once
\* the peer has written or closed the pipe, the loop is left.
C6_EintrRetried ==
    /\ [][(pc = "ld_read" /\ eintr' # eintr) =>
             /\ Interrupted'
             /\ pc' = "ld_read"
             /\ UNCHANGED <<calls, s, macrovars, tssvars,
                   saved_debugger_launch_command, options,
                            serve_files, macros, file, fd, gdb_command_file,
                            params, args, osvars, edvars>>]_vars
    /\ [][(pc = "ld_read" /\ pc' # "ld_read") => ~Interrupted']_vars
    /\ [](pc = "ld_return" => nread = 0)
    /\ [](pc = "ld_assert" => (nread # 0 /\ ~Interrupted))
    /\ (pc = "ld_read" /\ pipe.state \in {"data", "closed"}) ~> (pc # "ld_read")

\* Two interruptions, then the whole record.
C6_Witness ==
    /\ pc = "ld_assert"
    /\ eintr >= 2
    /\ nread = SizeofParams

\* C7: launch_debugger returns only after a read of 0 bytes; once the record
\* is read the call never returns: from the execvpe call the process is
\* either the debugger or terminated, and it gets there.
C7_NoReturnAfterRead ==
    /\ [](pc = "ld_return" => (nread = 0 /\ params.state = "uninit"))
    /\ [](params.state = "read" =>
             pc \in {"ld_assert", "ld_args", "ld_exec", "execed", "fatal"})
    /\ [][pc = "ld_exec" => pc' \in {"execed", "fatal"}]_vars
    /\ (params.state = "read") ~> (pc \in {"execed", "fatal"})

\* execvpe failed after the arguments were built.
C7_Witness ==
    /\ pc = "fatal"
    /\ params.state = "read"
    /\ args # <<>>

\* The place of the last "/" of a path.
LastSlash(path) == CHOOSE i \in 1..Len(path) :
                       path[i] = "/" /\ \A k \in (i + 1)..Len(path) : path[k] # "/"

\* The numbers a path "/proc/<pid>/fd/<N>" names.
PathPid(path) == atoi_digits(path, Len(S_proc) + 1, 0)
PathFd(path) == atoi_digits(path, LastSlash(path) + 1, 0)

\* From the return of create_gdb_command_file to the end of launch_debugger.
HasCommandFile == pc \in {"ld_read", "ld_assert", "ld_args", "ld_exec", "execed",
                          "ld_return"}

\* C8: the path create_gdb_command_file returns names the calling process and
\* the descriptor the script was written to; the script is written after the
\* directory entry is gone; and that descriptor stays open up to and past the
\* execvpe call and on the return after a read of 0 bytes.
C8_CommandFileDescriptorStaysOpen ==
    /\ HasCommandFile =>
          /\ PathPid(gdb_command_file) = getpid
          /\ PathFd(gdb_command_file) = fd
          /\ [fd |-> fd, content |-> macros] \in fdcontent
          /\ fd \in openfds
          /\ fd # params_pipe_fd
    /\ \A c \in fdcontent : (c.fd \in openfds /\ c.fd >= 4)
    /\ pc \in {"cf_create", "cf_extract", "cf_unlink", "cf_write"} =>
          ~(\E c \in fdcontent : c.fd = file.fd \/ c.fd = fd)
    /\ pc = "cf_write" => (file.name \notin dirents /\ fd \in openfds)
    /\ pc = "cf_return" => (dirents = {} /\ fd \in openfds /\ file.fd = -1)

\* The debugger runs with the second command file of the process open; the
\* first was left open by a call that returned.
C8_Witness ==
    /\ pc = "execed"
    /\ PathFd(gdb_command_file) = 5
    /\ {4, 5} \subseteq openfds
    /\ Cardinality(fdcontent) = 2

\* The order of emergency_debug's steps.
Rank(op) ==
    CASE op = "remove_all_breakpoints" -> 1
      [] op = "open_socket" -> 2
      [] op = "emit_gdb_cmd" -> 3
      [] op = "emit_stderr" -> 3
      [] op = "kill" -> 4
      [] op = "await_connection" -> 5
      [] op = "serve_emergency_debugger" -> 6

Events(op) == { i \in 1..Len(trace) : trace[i].op = op }

\* C9: the steps of one emergency_debug execution happen in the order
\* breakpoint removal, open_socket, advisory command, kill, await_connection,
\* serve_emergency_debugger, each at most once; the breakpoints are gone when
\* the socket listens; a returning execution has called await_connection and
\* serve_emergency_debugger once each, the latter with the accepted
\* connection and the same task.
C9_StepsInOrderOnce ==
    /\ \A i, j \in 1..Len(trace) : i < j => Rank(trace[i].op) < Rank(trace[j].op)
    /\ listening # -1 => breakpoints = {}
    /\ \A i \in 1..Len(trace) :
          Rank(trace[i].op) > 2 =>
              /\ Events("open_socket") # {}
              /\ trace[i].port = port
              /\ listening # -1
    /\ pc \in {"ed_await"} =>
          /\ Events("await_connection") = {}
          /\ t.vm => Events("emit_gdb_cmd") \cup Events("emit_stderr") \cup Events("kill") # {}
    /\ pc = "ed_return" =>
          /\ Cardinality(Events("await_connection")) = 1
          /\ Cardinality(Events("serve_emergency_debugger")) = 1
          /\ \A i \in Events("serve_emergency_debugger") :
                /\ trace[i].dbg = dbg
                /\ trace[i].tid = t.tid
                /\ \A j \in Events("await_connection") : trace[j].dbg = trace[i].dbg

\* An execution on the monitor path that went through all six steps.
C9_Witness ==
    /\ pc = "ed_return"
    /\ Len(trace) = 6
    /\ trace[3].op = "emit_gdb_cmd"
    /\ trace[4].op = "kill"

\* gdb_cmd holds the shell-quoted advisory command for the listening port.
GdbCmdWritten ==
    /\ gdb_cmd_file.exists
    /\ cmd # <<>>
    /\ gdb_cmd_file.content = to_shell_string(cmd)
    /\ PairAt(cmd, Len(cmd) - 2, TargetDirective(localhost_addr, port))

\* C10 as stated: when SIGURG has been sent, gdb_cmd has been written with
\* the advisory command for the listening port and closed.
C10_Original ==
    Events("kill") # {} => (gdb_cmd = "closed" /\ GdbCmdWritten)

\* C10, amended: when SIGURG is sent, no gdb_cmd stream is open; if fopen
\* succeeded and the write went through, gdb_cmd holds the shell-quoted
\* advisory command for the listening port. The signal is also sent when
\* fopen failed, or the write failed, and gdb_cmd is missing or unwritten.
C10_SignalAfterGdbCmdClosed ==
    Events("kill") # {} =>
        /\ gdb_cmd \in {"null", "closed", "closed_error"}
        /\ gdb_cmd = "closed" => GdbCmdWritten
        /\ gdb_cmd = "null" => Events("emit_gdb_cmd") = {}
        /\ \A i \in Events("kill") : trace[i].pid = atoi(test_monitor_pid.value)

\* The signal sent after gdb_cmd was written for a port found by probing.
C10_Witness ==
    /\ Events("kill") # {}
    /\ gdb_cmd = "closed"
    /\ GdbCmdWritten
    /\ port = ToUShort(t.tid) + 1

\* The positions of launch_debugger.
LdPcs == {"cf_create", "cf_extract", "cf_unlink", "cf_write", "cf_return",
          "ld_read", "ld_assert", "ld_args", "ld_exec", "ld_return"}

\* The calls of debugger_launch_command the running emergency_debug made.
LaunchCommandCalls == Events("emit_gdb_cmd") \cup Events("emit_stderr")

\* C11 as stated, its last part: an execution of emergency_debug that has
\* come to await_connection has written saved_debugger_launch_command once.
C11_Original ==
    pc = "ed_await" => Cardinality(LaunchCommandCalls) = 1

\* C11, amended: saved_debugger_launch_command is the shell rendering of the
\* sequence the most recent debugger_launch_command returned; it changes only
\* in a step that calls debugger_launch_command, never in launch_debugger;
\* an execution of emergency_debug that has come to await_connection called
\* debugger_launch_command once, or not at all when fopen failed.
C11_SavedIsLastLaunchCommand ==
    /\ [](cmd # <<>> => saved_debugger_launch_command = to_shell_string(cmd))
    /\ [](pc = "ed_await" =>
             Cardinality(LaunchCommandCalls) = IF gdb_cmd = "null" THEN 0 ELSE 1)
    /\ [][/\ saved_debugger_launch_command' # saved_debugger_launch_command =>
                /\ pc \in {"idle", "ed_write", "ed_print"}
                /\ cmd = <<>> /\ cmd' # <<>>
                /\ saved_debugger_launch_command' = to_shell_string(cmd')
          /\ pc \in LdPcs =>
                saved_debugger_launch_command' = saved_debugger_launch_command
          /\ (pc \in {"ed_write", "ed_print"} /\ cmd' # cmd) <=>
                (Len(trace') = Len(trace) + 1 /\
                 trace'[Len(trace')].op \in {"emit_gdb_cmd", "emit_stderr"})]_vars

\* An execution of emergency_debug whose fopen failed waits for the
\* connection with the rendering an earlier call stored still in place.
C11_Witness ==
    /\ pc = "ed_await"
    /\ gdb_cmd = "null"
    /\ LaunchCommandCalls = {}
    /\ saved_debugger_launch_command # <<>>

\* C12: gdb_init_script and launch_debugger all obtain the script the first
\* call built: GdbCommandHandler::gdb_macros() is called once, by the call
\* that finds s empty, and from then on s stays as it is and is what every
\* call returns, whatever gdb_macros() would return by then.
C12_ScriptComputedOnce ==
    /\ [](/\ gdb_macros_calls <= 1
          /\ s = <<>> <=> gdb_macros_calls = 0
          /\ script # <<>> => script = s
          /\ pc \in LdPcs => macros = s /\ script = s)
    /\ [][s # <<>> => /\ s' = s
                      /\ gdb_macros_calls' = gdb_macros_calls
                      /\ script' = s]_vars

\* A second call, of launch_debugger, made after the base macro text grew:
\* it has the script built from the first text.
C12_Witness ==
    /\ calls = 2
    /\ pc = "cf_create"
    /\ gdb_macros = GdbMacrosLater
    /\ s = GdbMacrosAtFirst \o rr_macros_text
    /\ macros = s
    /\ script = s

\* The blanks that divide the words of a shell command line.
ShellBlanks == {" ", "\t", "\n"}

\* How a POSIX shell divides str into words: blanks divide words outside
\* quotes, everything between two single quotes is taken as it stands,
\* between double quotes a backslash takes the special character after it,
\* and outside quotes a backslash takes the character after it. ok is FALSE
\* for a line that ends inside quotes or on a backslash.
RECURSIVE shell_split_from(_, _, _, _, _, _)
shell_split_from(str, i, mode, cur, started, words) ==
    IF i > Len(str)
    THEN IF mode # "plain" THEN [ok |-> FALSE, words |-> <<>>]
         ELSE [ok |-> TRUE, words |-> IF started THEN Append(words, cur) ELSE words]
    ELSE LET c == str[i] IN
         CASE mode = "single" ->
                 IF c = "'"
                 THEN shell_split_from(str, i + 1, "plain", cur, TRUE, words)
                 ELSE shell_split_from(str, i + 1, "single", Append(cur, c), TRUE, words)
           [] mode = "double" ->
                 IF c = "\""
                 THEN shell_split_from(str, i + 1, "plain", cur, TRUE, words)
                 ELSE IF c = "\\" /\ i + 1 <= Len(str) /\ str[i + 1] \in {"\\", "\"", "$"}
                 THEN shell_split_from(str, i + 2, "double", Append(cur, str[i + 1]),
                                       TRUE, words)
                 ELSE shell_split_from(str, i + 1, "double", Append(cur, c), TRUE, words)
           [] OTHER ->
                 IF c \in ShellBlanks
                 THEN IF started
                      THEN shell_split_from(str, i + 1, "plain", <<>>, FALSE,
                                            Append(words, cur))
                      ELSE shell_split_from(str, i + 1, "plain", <<>>, FALSE, words)
                 ELSE IF c = "'"
                 THEN shell_split_from(str, i + 1, "single", cur, TRUE, words)
                 ELSE IF c = "\""
                 THEN shell_split_from(str, i + 1, "double", cur, TRUE, words)
                 ELSE IF c = "\\"
                 THEN IF i + 1 <= Len(str)
                      THEN shell_split_from(str, i + 2, "plain", Append(cur, str[i + 1]),
                                            TRUE, words)
                      ELSE [ok |-> FALSE, words |-> <<>>]
                 ELSE shell_split_from(str, i + 1, "plain", Append(cur, c), TRUE, words)

shell_split(str) == shell_split_from(str, 1, "plain", <<>>, FALSE, <<>>)

\* No string of seq holds a single quote.
NoSingleQuote(seq) ==
    \A i \in 1..Len(seq) : \A j \in 1..Len(seq[i]) : seq[i][j] # "'"

\* C13: for a sequence whose strings hold no single quote, a POSIX shell
\* divides to_shell_string(args) into exactly the strings of args, in order.
C13_ShellRoundTrip ==
    (pc = "tss_return" /\ NoSingleQuote(shell_args)) =>
        shell_split(shell_string) = [ok |-> TRUE, words |-> shell_args]

\* A rendered sequence holding the empty string, a string with a blank and
\* one with a backslash.
C13_Witness ==
    /\ pc = "tss_return"
    /\ shell_args = << <<>>, <<"a", " ", "b">>, <<"\\">> >>
    /\ shell_split(shell_string).words = shell_args

\* Where launch_debugger puts the target pair it inserts: before the first
\* prefix pair of the options, or after all of them.
InsertedAt ==
    IF PrefixPairs(options) # {} THEN OptBase + Min(PrefixPairs(options))
    ELSE OptBase + Len(options) + 1

\* seq without the two elements at k and k + 1.
WithoutPair(seq, k) == SubSeq(seq, 1, k - 1) \o SubSeq(seq, k + 2, Len(seq))

\* C14: the bootstrap sequence without the one target pair launch_debugger
\* inserted is the debugger path, "-l", "10000", the sysroot pair unless
\* serve_files, "-x", the command file path, the passthrough options as
\* given, and the image path: each option once and in its place.
C14_OptionsPassedThrough ==
    Built =>
        /\ PairAt(args, InsertedAt, ParamsTarget)
        /\ WithoutPair(args, InsertedAt) =
               <<DebuggerFilePath, S_l, S_10000>>
               \o (IF serve_files THEN <<>> ELSE <<S_ex, S_set_sysroot>>)
               \o <<S_x, gdb_command_file>>
               \o options
               \o <<params.exe_image>>

\* Options that hold the same pair twice and a target pair of their own.
C14_Witness ==
    /\ Built
    /\ options = <<S_ex, TargetDirective(S_localhost, 9999), S_ex, S_continue>>
    /\ InsertedAt = OptBase + 3
    /\ Len(args) = OptBase + 7

\* The decimal number a string ends with, after its last colon.
LastColon(str) == CHOOSE i \in 1..Len(str) :
                      str[i] = ":" /\ \A j \in (i + 1)..Len(str) : str[j] # ":"
PortText(str) == SubSeq(str, LastColon(str) + 1, Len(str))

\* C15: the target directive launch_debugger builds names the port the peer
\* wrote into the record, as an unsigned decimal number, for the ports of
\* 32768 and more too, which the record holds as negative shorts.
C15_PortRenderedUnsigned ==
    Built =>
        /\ params.port = ToShort(pipe.rec.port)
        /\ PairAt(args, InsertedAt, TargetDirective(pipe.rec.host, pipe.rec.port))
        /\ LET text == PortText(args[InsertedAt + 1])
           IN  /\ \A i \in 1..Len(text) : IsDigit(text[i])
               /\ atoi(text) = pipe.rec.port

\* The port 65535, which the record holds as the short -1.
C15_Witness ==
    /\ Built
    /\ pipe.rec.port = 65535
    /\ params.port = -1
    /\ PortText(args[InsertedAt + 1]) = <<"6", "5", "5", "3", "5">>

\* The port the listening socket of the running emergency_debug was bound to.
BoundPort == trace[CHOOSE i \in Events("open_socket") : TRUE].port

\* C16: the probe starts at the task id modulo 65536, and the advisory
\* command emergency_debug writes to gdb_cmd or prints to stderr names the
\* port the listening socket was bound to.
C16_AdvisoryNamesBoundPort ==
    /\ Events("open_socket") # {} =>
          /\ BoundPort >= t.tid % 65536
          /\ BoundPort <= (t.tid % 65536) + MaxProbe
    /\ (Events("emit_gdb_cmd") \cup Events("emit_stderr") # {}) =>
          /\ Events("open_socket") # {}
          /\ PairAt(cmd, Len(cmd) - 2, TargetDirective(localhost_addr, BoundPort))
          /\ PairCount(cmd, TargetDirective(localhost_addr, BoundPort)) = 1
          /\ Events("emit_stderr") # {} => stderr_out = to_shell_string(cmd)
          /\ gdb_cmd = "closed" => gdb_cmd_file.content = to_shell_string(cmd)

\* A task id above 65535 and a first port found taken: the command printed
\* names the port bound, one above the hint.
C16_Witness ==
    /\ Events("emit_stderr") # {}
    /\ t.tid = 65616
    /\ BoundPort = 81
    /\ stderr_out = to_shell_string(cmd)
    /\ PairAt(cmd, Len(cmd) - 2, TargetDirective(localhost_addr, 81))

\* C17 as stated: on the monitor path SIGURG goes to exactly one process,
\* the one RUNNING_UNDER_TEST_MONITOR names in decimal, and for no value of
\* the variable to the caller's process group or to all processes.
C17_Original ==
    Events("kill") # {} =>
        /\ Len(signals) = 1
        /\ signals[1].sig = SIGURG
        /\ kill_recipients(signals[1].pid).kind = "process"
        /\ Dec(kill_recipients(signals[1].pid).id) = test_monitor_pid.value

\* RUNNING_UNDER_TEST_MONITOR set to the empty string: atoi gives 0 and
\* SIGURG has gone to the process group of the caller.
C17_Witness ==
    /\ Events("kill") # {}
    /\ test_monitor_pid = [set |-> TRUE, value |-> <<>>]
    /\ Len(signals) = 1
    /\ kill_recipients(signals[1].pid).kind = "own_group"

\* C18 as stated: for a task whose vm() is null, emergency_debug skips the
\* breakpoint removal and goes on to await_connection with no use of
\* t->vm(): the process is not killed by a null dereference, and no command
\* holds an image path read through the null pointer.
C18_Original ==
    (t # NoTask /\ ~t.vm) =>
        /\ Events("remove_all_breakpoints") = {}
        /\ pc # "crashed"
        /\ cmd # <<>> => cmd[Len(cmd)] # S_garbage

\* A task without address space: the removal was skipped, the socket
\* listens, and the process died in debugger_launch_command at
\* t->vm()->exe_image().
C18_Witness ==
    /\ t # NoTask /\ ~t.vm
    /\ Events("remove_all_breakpoints") = {}
    /\ Events("open_socket") # {}
    /\ test_monitor_pid.set = FALSE
    /\ pc = "crashed"

====
